---- MODULE Spec2Model ----
(***************************************************************************)
(* Model of tts_stt_converter.py: a command line tool that converts text   *)
(* to speech (gTTS) and speech to text (SpeechRecognition).                *)
(*                                                                         *)
(* The process is single threaded.  One behaviour of the model is a        *)
(* sequence of processes run one after the other over the same file        *)
(* system: each process imports the module (lines 27-49), and then either  *)
(* runs main() (line 113-114, the script) or, the module being importable, *)
(* has one of its two conversion functions called by the importer.         *)
(*                                                                         *)
(* Paths are sequences of components: "output/speech_output.mp3" is        *)
(* <<"output", "speech_output.mp3">>, and the empty path '' is <<>>.       *)
(***************************************************************************)
EXTENDS Integers, Sequences, FiniteSets, TLC

VARIABLES
    cfg,          \* config.ini: [exists, opts]; opts maps <<section, key>> to a value or NoKey
    dirs,         \* directories that exist
    ro,           \* directories in which no entry can be created
    files,        \* audio and output files: path -> [exists, data]
    logfiles,     \* log files: path -> [exists, lines]
    run,          \* number of processes started so far
    pc,           \* "idle", "import", "loaded", "exited"
    mode,         \* "cli" (python tts_stt_converter.py ...) or "lib" (import)
    argv,         \* the command line of the current process
    log_file,     \* module global log_file (line 32)
    log_level,    \* module global log_level (line 33)
    level,        \* the level of logger 'TextSpeechLogger' (line 38)
    rootHandler,  \* TRUE once the root logger got a handler (logging.basicConfig)
    args,         \* the namespace parse_cli_args returned
    output_file,  \* main's local output_file
    events,       \* the calls main made, in order
    errCalls,     \* the messages passed to logger.error in this process
    logged,       \* the records this process appended to its log file
    console,      \* the records this process wrote to stderr through handlers
    stdout,       \* what this process printed
    provider,     \* number of requests sent to an external provider in this process
    last,         \* summary of the conversion call of this process
    exc,          \* the uncaught exception that ended the process, or "none"
    exitStatus    \* exit status of the process, -1 while it runs

vars == <<cfg, dirs, ro, files, logfiles, run, pc, mode, argv, log_file, log_level,
          level, rootHandler, args, output_file, events, errCalls, logged, console,
          stdout, provider, last, exc, exitStatus>>

envVars == <<cfg, ro>>
fsVars == <<dirs, files, logfiles>>

-----------------------------------------------------------------------------
(* Bounds *)

MaxRuns == 2            \* processes run one after the other

-----------------------------------------------------------------------------
(* Values *)

NoKey == <<"<nokey>">>      \* the option (or its section, or the file) is absent
NoPath == <<"<unset>">>

CwdDir == <<>>              \* '' : as a directory of a bare file name, the cwd

DefaultLogFile == <<"logs", "converter.log">>           \* line 32
DefaultLogLevel == <<"INFO">>                           \* line 33
DefaultTTSOutput == <<"output", "speech_output.mp3">>   \* line 101
DefaultSTTOutput == <<"output", "text_output.txt">>     \* line 106

\* logging's numeric levels
INFO == 20          \* logging.INFO
WARNING == 30       \* the level of the root logger
ERROR == 40         \* the level of a logger.error record

\* the messages of the logger.error calls
MsgPermission == "Permission denied while saving file"   \* line 60
MsgTTS == "Unexpected error occured in TTS"              \* line 62
MsgAudioNotFound == "Audio file not found"               \* line 74
MsgUnintelligible == "Speech was unintelligible."        \* line 76
MsgRequest == "Sppech recognition API error"             \* line 78
MsgSTT == "Unexpected error in STT"                      \* line 80
MsgInvalid == "Invalid command. Use --help for options." \* line 111

\* configuration values the model draws config.ini from
LogFileValues == {NoKey, <<"run.log">>, <<"media", "run.log">>}
LogLevelValues == {NoKey, <<"CRITICAL">>, <<"verbose">>, <<"info">>}
TTSValues == {NoKey, <<"speech.mp3">>, <<"media", "speech.mp3">>}
STTValues == {NoKey, <<"text.txt">>, <<"media", "text.txt">>}

KLogFile == <<"Logging", "log_file">>
KLogLevel == <<"Logging", "log_level">>
KTTS == <<"TTS", "output_file">>
KSTT == <<"STT", "output_file">>
Keys == {KLogFile, KLogLevel, KTTS, KSTT}

LogPaths == (LogFileValues \ {NoKey}) \cup {DefaultLogFile}
TTSPaths == (TTSValues \ {NoKey}) \cup {DefaultTTSOutput}
STTPaths == (STTValues \ {NoKey}) \cup {DefaultSTTOutput}
OrphanPath == <<"nodir", "out.txt">>    \* a destination whose directory nobody creates

GoodAudio == <<"in.wav">>       \* a readable WAV file
GoneAudio == <<"gone.wav">>     \* no such file
JunkAudio == <<"notes.wav">>    \* a file that is no audio
AudioPaths == {GoodAudio, GoneAudio, JunkAudio}

WavData == <<82, 73, 70, 70>>   \* "RIFF"
JunkData == <<0>>

FilePaths == TTSPaths \cup STTPaths \cup AudioPaths \cup {OrphanPath}

Texts == {"", "hi"}                       \* --text
Langs == {"fr"}                           \* --lang
AudioBytes == {<<1>>, <<2, 3>>}           \* what the synthesis provider returns
\* what the recognition provider returns, as code points: U+00E9, U+20AC "A",
\* and a lone surrogate U+D800 (a JSON \ud800 escape decodes to one)
Transcripts == {<<233>>, <<8364, 65>>, <<55296>>}

NoFile == [exists |-> FALSE, data |-> <<>>]
NoLog == [exists |-> FALSE, lines |-> <<>>]
NoText == "<none>"
NoArgv == [cmd |-> "", text |-> NoText, audio |-> NoPath, lang |-> ""]
NoArgs == [command |-> "unset", text |-> NoText, audio |-> NoPath, lang |-> ""]
NoCall == [fn |-> "none", path |-> NoPath, audio |-> NoPath, exc |-> "none",
           errs |-> <<>>, requests |-> 0, opened |-> FALSE, before |-> NoFile,
           result |-> <<>>, ok |-> FALSE]

-----------------------------------------------------------------------------
(* os.path and the file system *)

\* os.path.dirname
Dirname(p) == IF Len(p) = 0 THEN <<>> ELSE SubSeq(p, 1, Len(p) - 1)

\* os.makedirs(d, exist_ok=True): [dirs, exc]
RECURSIVE MakeDirs(_, _)
MakeDirs(ds, d) ==
    IF d = <<>> THEN [dirs |-> ds, exc |-> "FileNotFoundError"]     \* os.makedirs('')
    ELSE IF d \in ds THEN [dirs |-> ds, exc |-> "none"]             \* exist_ok
    ELSE LET head == Dirname(d)
             up == IF head = <<>> THEN [dirs |-> ds, exc |-> "none"]
                   ELSE MakeDirs(ds, head)
         IN  IF up.exc # "none" THEN up
             ELSE IF head \in ro THEN [dirs |-> up.dirs, exc |-> "PermissionError"]
             ELSE [dirs |-> up.dirs \cup {d}, exc |-> "none"]

\* open(p, 'w' / 'wb' / 'a'): the exception it raises, or "none"
OpenForWrite(ds, exists, p) ==
    IF p = <<>> \/ Dirname(p) \notin ds THEN "FileNotFoundError"
    ELSE IF ~exists /\ Dirname(p) \in ro THEN "PermissionError"
    ELSE "none"

\* (mutant) the destination opened in append mode: what the file held stays
Truncate_append(f) == [exists |-> TRUE, data |-> f.data]

\* the file right after open(p, 'w') or open(p, 'wb'): created or truncated
Truncate(f) == [exists |-> TRUE, data |-> <<>>]

\* the file after data was written through the open handle
Written(f, data) == [exists |-> TRUE, data |-> f.data \o data]

-----------------------------------------------------------------------------
(* str.encode('utf-8'), as open(..., 'w', encoding='utf-8') applies it on write *)

EncodeError == <<-1>>

Utf8Char(c) ==
    IF c < 128 THEN <<c>>
    ELSE IF c < 2048 THEN <<192 + (c \div 64), 128 + (c % 64)>>
    ELSE IF c >= 55296 /\ c <= 57343 THEN EncodeError
    ELSE IF c < 65536 THEN <<224 + (c \div 4096), 128 + ((c \div 64) % 64), 128 + (c % 64)>>
    ELSE <<240 + (c \div 262144), 128 + ((c \div 4096) % 64),
           128 + ((c \div 64) % 64), 128 + (c % 64)>>

RECURSIVE Utf8Encode(_)
Utf8Encode(s) ==
    IF s = <<>> THEN <<>>
    ELSE LET h == Utf8Char(Head(s))
             t == Utf8Encode(Tail(s))
         IN  IF h = EncodeError \/ t = EncodeError THEN EncodeError ELSE h \o t

-----------------------------------------------------------------------------
(* configparser *)

\* (mutant) the stored value is never read
ConfigGet_fallback(c, key, fallback) == fallback

\* config.get(section, key, fallback=...)
ConfigGet(c, key, fallback) ==
    IF c.exists /\ c.opts[key] # NoKey THEN c.opts[key] ELSE fallback

\* getattr(logging, log_level, logging.INFO): a level number, or 0 when the attribute
\* of the logging module by that name is no level (logging.info is a function)
LevelOf(name) ==
    IF name = <<"DEBUG">> THEN 10
    ELSE IF name = <<"INFO">> THEN INFO
    ELSE IF name = <<"WARNING">> THEN WARNING
    ELSE IF name = <<"ERROR">> THEN ERROR
    ELSE IF name = <<"CRITICAL">> THEN 50
    ELSE IF name = <<"info">> THEN 0
    ELSE INFO

-----------------------------------------------------------------------------
(* The part of the state a conversion changes, as a record *)

Cur == [dirs |-> dirs, files |-> files, logfiles |-> logfiles, errCalls |-> errCalls,
        logged |-> logged, console |-> console, stdout |-> stdout,
        rootHandler |-> rootHandler, provider |-> provider, last |-> NoCall]

\* logger.error(msg): the file handler and the console handler (level INFO) of
\* 'TextSpeechLogger', then, by propagation, the handlers of the root logger
LoggerError(S, msg) ==
    LET emit == ERROR >= level
        rec == <<"ERROR", msg>>
    IN  [S EXCEPT !.errCalls = Append(@, msg),
                  !.last.errs = Append(@, msg),
                  !.logfiles[log_file].lines = IF emit THEN Append(@, rec) ELSE @,
                  !.logfiles[log_file].exists = IF emit THEN TRUE ELSE @,
                  !.logged = IF emit THEN Append(@, rec) ELSE @,
                  !.console = IF ~emit THEN @
                              ELSE IF S.rootHandler THEN @ \o <<rec, rec>>
                              ELSE Append(@, rec)]

\* logging.info(msg): the ROOT logger; with no handler on it, basicConfig() gives it
\* one, and the root's level WARNING drops the record
LoggingInfo(S, msg) ==
    [S EXCEPT !.rootHandler = TRUE,
              !.console = IF INFO >= WARNING THEN Append(@, <<"INFO", msg>>) ELSE @]

\* print(msg)
PrintLine(S, msg) == [S EXCEPT !.stdout = Append(@, msg)]

-----------------------------------------------------------------------------
(* convert_text_to_speech(text, output_path), lines 51-62.                   *)
(* request is the provider's answer to this call: "ok" or "error"; audio is  *)
(* the audio it returns.  gTTS refuses an empty text; tts.save opens the     *)
(* destination for writing and then streams the provider's answer into it.   *)

TTSCall(output_path, f) ==
    [NoCall EXCEPT !.fn = "tts", !.path = output_path, !.before = f]

convert_text_to_speech(S0, text, output_path, request, audio) ==
    LET f == S0.files[output_path]
        S == [S0 EXCEPT !.last = TTSCall(output_path, f)]
        open == OpenForWrite(S0.dirs, f.exists, output_path)
    IN  IF text = ""
        THEN LoggerError([S EXCEPT !.last.exc = "AssertionError"], MsgTTS)
        ELSE IF open = "PermissionError"
        THEN LoggerError([S EXCEPT !.last.exc = open], MsgPermission)
        ELSE IF open # "none"
        THEN LoggerError([S EXCEPT !.last.exc = open], MsgTTS)
        ELSE IF request # "ok"
        THEN LoggerError([S EXCEPT !.last.exc = "gTTSError",
                                   !.last.opened = TRUE,
                                   !.last.requests = 1,
                                   !.provider = @ + 1,
                                   !.files[output_path] = Truncate(f)],
                         MsgTTS)
        ELSE PrintLine(LoggingInfo([S EXCEPT !.last.opened = TRUE,
                                             !.last.requests = 1,
                                             !.last.result = audio,
                                             !.last.ok = TRUE,
                                             !.provider = @ + 1,
                                             !.files[output_path] =
                                                 Written(Truncate(f), audio)],
                                   "Speech saved to"),
                       "Speech saved to")

-----------------------------------------------------------------------------
(* convert_speech_to_text(audio_path, output_path, language), lines 64-80.   *)
(* answer is the provider's answer to this call: "ok" with the transcript    *)
(* text, "unknown" (sr.UnknownValueError) or "request" (sr.RequestError).    *)

STTCall(audio_path, output_path, f) ==
    [NoCall EXCEPT !.fn = "stt", !.path = output_path, !.audio = audio_path, !.before = f]

\* (mutant) the UnknownValueError clause falls through to the generic one
STTHandler_fallthrough(S, e) ==
    IF e = "FileNotFoundError" THEN LoggerError(S, MsgAudioNotFound)
    ELSE IF e = "UnknownValueError"
    THEN LoggerError(LoggerError(S, MsgUnintelligible), MsgSTT)
    ELSE IF e = "RequestError" THEN LoggerError(S, MsgRequest)
    ELSE LoggerError(S, MsgSTT)

\* the except clauses, lines 73-80
STTHandler(S, e) ==
    IF e = "FileNotFoundError" THEN LoggerError(S, MsgAudioNotFound)
    ELSE IF e = "UnknownValueError" THEN LoggerError(S, MsgUnintelligible)
    ELSE IF e = "RequestError" THEN LoggerError(S, MsgRequest)
    ELSE LoggerError(S, MsgSTT)

STTRaise(S, e) == STTHandler([S EXCEPT !.last.exc = e], e)

\* (mutant) the destination is opened for writing before the audio is loaded
convert_speech_to_text_openfirst(S0, audio_path, output_path, language, answer, text) ==
    LET f == S0.files[output_path]
        S1 == [S0 EXCEPT !.last = STTCall(audio_path, output_path, f)]
        a == S0.files[audio_path]
        open == OpenForWrite(S0.dirs, f.exists, output_path)
        bytes == Utf8Encode(text)
        S == [S1 EXCEPT !.last.opened = TRUE, !.files[output_path] = Truncate(f)]
        R == [S EXCEPT !.provider = @ + 1, !.last.requests = 1]
    IN  IF open # "none" THEN STTRaise(S1, open)
        ELSE IF ~a.exists THEN STTRaise(S, "FileNotFoundError")
        ELSE IF a.data # WavData THEN STTRaise(S, "ValueError")
        ELSE IF answer = "unknown" THEN STTRaise(R, "UnknownValueError")
        ELSE IF answer = "request" THEN STTRaise(R, "RequestError")
        ELSE IF bytes = EncodeError THEN STTRaise(R, "UnicodeEncodeError")
        ELSE [R EXCEPT !.last.result = text,
                       !.last.ok = TRUE,
                       !.files[output_path] = Written(Truncate(f), bytes)]

convert_speech_to_text(S0, audio_path, output_path, language, answer, text) ==
    LET f == S0.files[output_path]
        S == [S0 EXCEPT !.last = STTCall(audio_path, output_path, f)]
        a == S0.files[audio_path]
        R == [S EXCEPT !.provider = @ + 1, !.last.requests = 1]
        open == OpenForWrite(S0.dirs, f.exists, output_path)
        bytes == Utf8Encode(text)
        T == [R EXCEPT !.last.opened = TRUE,
                       !.files[output_path] = Truncate(f)]
    IN  IF ~a.exists THEN STTRaise(S, "FileNotFoundError")          \* line 67
        ELSE IF a.data # WavData THEN STTRaise(S, "ValueError")     \* line 67
        ELSE IF answer = "unknown" THEN STTRaise(R, "UnknownValueError")   \* line 69
        ELSE IF answer = "request" THEN STTRaise(R, "RequestError")        \* line 69
        ELSE IF open # "none" THEN STTRaise(R, open)                \* line 70
        ELSE IF bytes = EncodeError THEN STTRaise(T, "UnicodeEncodeError") \* line 71
        ELSE [T EXCEPT !.last.result = text,
                       !.last.ok = TRUE,
                       !.files[output_path] = Written(Truncate(f), bytes)]

-----------------------------------------------------------------------------
(* parse_cli_args(), lines 82-94.  argv holds the sub-command word ("" when  *)
(* there is none) and the values of the options given (NoText, NoPath, ""    *)
(* when not given).  argparse ends the process with status 2 on a            *)
(* sub-command it does not know and on a required option that is missing.    *)

CliArgvs ==
    {NoArgv, [NoArgv EXCEPT !.cmd = "tts"], [NoArgv EXCEPT !.cmd = "bogus"]}
    \cup {[NoArgv EXCEPT !.cmd = "tts", !.text = t] : t \in Texts}
    \cup {[NoArgv EXCEPT !.cmd = "stt", !.audio = a] : a \in AudioPaths}
    \cup {[NoArgv EXCEPT !.cmd = "stt", !.audio = a, !.lang = l] :
              a \in AudioPaths, l \in Langs}

parse_cli_args(av) ==
    IF av.cmd = ""
    THEN [ok |-> TRUE, args |-> [NoArgs EXCEPT !.command = "None"]]
    ELSE IF av.cmd = "tts" /\ av.text # NoText
    THEN [ok |-> TRUE, args |-> [NoArgs EXCEPT !.command = "tts", !.text = av.text]]
    ELSE IF av.cmd = "stt" /\ av.audio # NoPath
    THEN [ok |-> TRUE,
          args |-> [NoArgs EXCEPT !.command = "stt", !.audio = av.audio,
                                  !.lang = IF av.lang = "" THEN "en" ELSE av.lang]]
    ELSE [ok |-> FALSE, args |-> NoArgs]

-----------------------------------------------------------------------------
(* The state *)

EnvChoices ==
    { [dirs |-> {CwdDir}, ro |-> {}],
      [dirs |-> {CwdDir, <<"logs">>, <<"output">>, <<"media">>},
       ro |-> {<<"output">>, <<"media">>}],
      [dirs |-> {CwdDir, <<"logs">>}, ro |-> {CwdDir}] }

\* config.ini: absent, empty, one option set, or all four set
NoOpts == [k \in Keys |-> NoKey]

ValuesOf(k) ==
    IF k = KLogFile THEN LogFileValues
    ELSE IF k = KLogLevel THEN LogLevelValues
    ELSE IF k = KTTS THEN TTSValues
    ELSE STTValues

ConfigFiles ==
    { [exists |-> FALSE, opts |-> NoOpts] }
    \cup { [exists |-> TRUE, opts |-> [NoOpts EXCEPT ![k] = v]] :
            k \in Keys, v \in LogFileValues \cup LogLevelValues \cup TTSValues \cup STTValues }
    \cup { [exists |-> TRUE,
            opts |-> [k \in Keys |-> IF k = KLogFile THEN <<"media", "run.log">>
                                     ELSE IF k = KLogLevel THEN <<"CRITICAL">>
                                     ELSE IF k = KTTS THEN t ELSE st]] :
            t \in TTSValues \ {NoKey}, st \in STTValues \ {NoKey} }

Init ==
    /\ cfg \in {c \in ConfigFiles : \A k \in Keys : c.opts[k] \in ValuesOf(k)}
    /\ \E e \in EnvChoices : dirs = e.dirs /\ ro = e.ro
    /\ files = [p \in FilePaths |->
                   IF p = GoodAudio THEN [exists |-> TRUE, data |-> WavData]
                   ELSE IF p = JunkAudio THEN [exists |-> TRUE, data |-> JunkData]
                   ELSE NoFile]
    /\ logfiles = [p \in LogPaths |-> NoLog]
    /\ run = 0
    /\ pc = "idle"
    /\ mode = "cli"
    /\ argv = NoArgv
    /\ log_file = NoPath
    /\ log_level = NoKey
    /\ level = 0
    /\ rootHandler = FALSE
    /\ args = NoArgs
    /\ output_file = NoPath
    /\ events = <<>>
    /\ errCalls = <<>>
    /\ logged = <<>>
    /\ console = <<>>
    /\ stdout = <<>>
    /\ provider = 0
    /\ last = NoCall
    /\ exc = "none"
    /\ exitStatus = -1

\* a new interpreter: python tts_stt_converter.py <argv>, or an importer
Start(m, av) ==
    /\ pc \in {"idle", "exited"}
    /\ run < MaxRuns
    /\ run' = run + 1
    /\ pc' = "import"
    /\ mode' = m
    /\ argv' = av
    /\ log_file' = NoPath
    /\ log_level' = NoKey
    /\ level' = 0
    /\ rootHandler' = FALSE
    /\ args' = NoArgs
    /\ output_file' = NoPath
    /\ events' = <<>>
    /\ errCalls' = <<>>
    /\ logged' = <<>>
    /\ console' = <<>>
    /\ stdout' = <<>>
    /\ provider' = 0
    /\ last' = NoCall
    /\ exc' = "none"
    /\ exitStatus' = -1
    /\ UNCHANGED <<envVars, fsVars>>

\* an uncaught exception: traceback, exit status 1
Crash(e) ==
    /\ pc' = "exited"
    /\ exc' = e
    /\ exitStatus' = 1

\* the state a conversion left
Apply(S) ==
    /\ dirs' = S.dirs
    /\ files' = S.files
    /\ logfiles' = S.logfiles
    /\ errCalls' = S.errCalls
    /\ logged' = S.logged
    /\ console' = S.console
    /\ stdout' = S.stdout
    /\ rootHandler' = S.rootHandler
    /\ provider' = S.provider
    /\ last' = S.last

\* the module level code, lines 27-49
ModuleInit ==
    LET lf == ConfigGet(cfg, KLogFile, DefaultLogFile)
        ll == ConfigGet(cfg, KLogLevel, DefaultLogLevel)
        md == MakeDirs(dirs, Dirname(lf))                               \* line 35
        open == OpenForWrite(md.dirs, logfiles[lf].exists, lf)          \* line 42
    IN  /\ pc = "import"
        /\ log_file' = lf
        /\ log_level' = ll
        /\ dirs' = md.dirs
        /\ IF md.exc # "none"
           THEN Crash(md.exc) /\ UNCHANGED <<level, logfiles>>
           ELSE IF LevelOf(ll) = 0                                      \* line 38
           THEN Crash("TypeError") /\ UNCHANGED <<level, logfiles>>
           ELSE IF open # "none"
           THEN Crash(open) /\ level' = LevelOf(ll) /\ UNCHANGED logfiles
           ELSE /\ level' = LevelOf(ll)
                /\ logfiles' = [logfiles EXCEPT ![lf].exists = TRUE]
                /\ pc' = "loaded"
                /\ UNCHANGED <<exc, exitStatus>>
        /\ UNCHANGED <<envVars, files, run, mode, argv, rootHandler, args, output_file,
                       events, errCalls, logged, console, stdout, provider, last>>

Ev(op, path) == [op |-> op, path |-> path]

\* (mutant) every command that is not stt is taken for tts
Branch_default(command) == IF command = "stt" THEN "stt" ELSE "tts"

\* the if / elif / else of main, lines 100-111
Branch(command) ==
    IF command = "tts" THEN "tts"
    ELSE IF command = "stt" THEN "stt"
    ELSE "invalid"

\* main(), lines 96-111, with the conversion it calls
Main(request, audio, answer, text) ==
    LET parsed == parse_cli_args(argv)
        a == parsed.args
        br == Branch(a.command)
        out == IF br = "tts" THEN ConfigGet(cfg, KTTS, DefaultTTSOutput)
               ELSE ConfigGet(cfg, KSTT, DefaultSTTOutput)
        md == MakeDirs(dirs, Dirname(out))
        S == [Cur EXCEPT !.dirs = md.dirs]
        fn == IF br = "tts" THEN "convert_text_to_speech"
              ELSE "convert_speech_to_text"
    IN  /\ pc = "loaded"
        /\ mode = "cli"
        /\ IF ~parsed.ok
           THEN /\ pc' = "exited"
                /\ exitStatus' = 2
                /\ UNCHANGED <<args, output_file, events, exc, fsVars, errCalls, logged,
                               console, stdout, rootHandler, provider, last>>
           ELSE IF br \in {"tts", "stt"}
           THEN /\ args' = a
                /\ output_file' = out
                /\ IF md.exc # "none"
                   THEN /\ Crash(md.exc)
                        /\ events' = <<Ev("makedirs", Dirname(out))>>
                        /\ dirs' = md.dirs
                        /\ UNCHANGED <<files, logfiles, errCalls, logged, console, stdout,
                                       rootHandler, provider, last>>
                   ELSE /\ events' = <<Ev("makedirs", Dirname(out)), Ev(fn, out)>>
                        /\ Apply(IF br = "tts"
                                 THEN convert_text_to_speech(S, a.text, out, request, audio)
                                 ELSE convert_speech_to_text(S, a.audio, out, a.lang,
                                                             answer, text))
                        /\ pc' = "exited"
                        /\ exitStatus' = 0
                        /\ UNCHANGED exc
           ELSE /\ args' = a
                /\ stdout' = Append(stdout, MsgInvalid)
                /\ pc' = "exited"
                /\ exitStatus' = 0
                /\ UNCHANGED <<output_file, events, exc, fsVars, errCalls, logged, console,
                               rootHandler, provider, last>>
        /\ UNCHANGED <<envVars, run, mode, argv, log_file, log_level, level>>

LibTTSPaths == {<<"speech.mp3">>, OrphanPath}
LibSTTPaths == {<<"text.txt">>, OrphanPath}

\* an importer calls convert_text_to_speech and ends
DirectTTS(text, path, request, audio) ==
    /\ pc = "loaded"
    /\ mode = "lib"
    /\ Apply(convert_text_to_speech(Cur, text, path, request, audio))
    /\ pc' = "exited"
    /\ exitStatus' = 0
    /\ UNCHANGED <<envVars, run, mode, argv, log_file, log_level, level, args,
                   output_file, events, exc>>

\* an importer calls convert_speech_to_text and ends
DirectSTT(audio_path, path, answer, text) ==
    /\ pc = "loaded"
    /\ mode = "lib"
    /\ Apply(convert_speech_to_text(Cur, audio_path, path, "en", answer, text))
    /\ pc' = "exited"
    /\ exitStatus' = 0
    /\ UNCHANGED <<envVars, run, mode, argv, log_file, log_level, level, args,
                   output_file, events, exc>>

Requests == {"ok", "error"}
Answers == {"ok", "unknown", "request"}

Next ==
    \/ \E av \in CliArgvs : Start("cli", av)
    \/ Start("lib", NoArgv)
    \/ ModuleInit
    \/ \E r \in Requests, au \in AudioBytes, an \in Answers, t \in Transcripts :
           Main(r, au, an, t)
    \/ \E tx \in Texts, p \in LibTTSPaths, r \in Requests, au \in AudioBytes :
           DirectTTS(tx, p, r, au)
    \/ \E a \in AudioPaths, p \in LibSTTPaths, an \in Answers, t \in Transcripts :
           DirectSTT(a, p, an, t)

Spec == Init /\ [][Next]_vars

-----------------------------------------------------------------------------
(* Properties *)

Exited == pc = "exited"
CliDone(c) == Exited /\ mode = "cli" /\ args.command = c
Converted(fn) == Exited /\ last.fn = fn
Default(k) ==
    IF k = KLogFile THEN DefaultLogFile
    ELSE IF k = KLogLevel THEN DefaultLogLevel
    ELSE IF k = KTTS THEN DefaultTTSOutput
    ELSE DefaultSTTOutput
Present(k) == cfg.exists /\ cfg.opts[k] # NoKey
Expected(k) == IF Present(k) THEN cfg.opts[k] ELSE Default(k)

\* C1: every tts or stt run ends with exit status 0 and no uncaught exception,
\* whatever failed in it, and a failed run has logged an error.
C1_FailuresAreSwallowed ==
    (Exited /\ mode = "cli" /\ argv.cmd \in {"tts", "stt"} /\ args.command # "unset")
        => /\ exitStatus = 0
           /\ exc = "none"
           /\ (~last.ok => errCalls # <<>>)

\* C2: convert_speech_to_text called with a missing audio file logs 'Audio file
\* not found' (and nothing else), sends no request to the provider and leaves the
\* destination as it was: not created, not opened, an earlier transcript kept.
C2_MissingAudioWritesNothing ==
    (Converted("stt") /\ ~files[last.audio].exists)
        => /\ last.errs = <<MsgAudioNotFound>>
           /\ last.requests = 0
           /\ provider = 0
           /\ ~last.opened
           /\ files[last.path] = last.before

C2_Witness ==
    /\ Converted("stt")
    /\ last.audio = GoneAudio
    /\ last.before.exists
    /\ last.before.data # <<>>
    /\ files[last.path] = last.before
    /\ last.errs = <<MsgAudioNotFound>>

\* C3: when the provider cannot understand the audio, convert_speech_to_text logs
\* 'Speech was unintelligible.' exactly once and never opens the destination:
\* the file is neither created nor truncated.
C3_UnintelligibleWritesNothing ==
    (Converted("stt") /\ last.exc = "UnknownValueError")
        => /\ last.errs = <<MsgUnintelligible>>
           /\ errCalls = <<MsgUnintelligible>>
           /\ ~last.opened
           /\ files[last.path] = last.before

C3_Witness ==
    /\ Converted("stt")
    /\ last.exc = "UnknownValueError"
    /\ last.requests = 1
    /\ last.before.exists
    /\ last.before.data # <<>>
    /\ files[last.path] = last.before

\* C4: a tts run in which a permission failure arose, in main's os.makedirs or in
\* tts.save, has logged 'Permission denied while saving file' and ended normally.
C4_PermissionIsLogged ==
    (Exited /\ mode = "cli" /\ args.command = "tts"
        /\ (exc = "PermissionError" \/ last.exc = "PermissionError"))
        => /\ exitStatus = 0
           /\ exc = "none"
           /\ errCalls = <<MsgPermission>>

\* C5: each of the four settings is the stored value when its key is present and
\* its hardcoded default otherwise, whatever the other keys are; with no config.ini
\* the run uses logs/converter.log, INFO, output/speech_output.mp3 and
\* output/text_output.txt, and nothing is raised in a writable tree.
C5_SettingsResolve ==
    /\ (pc \in {"loaded", "exited"} /\ run > 0)
          => /\ log_file = Expected(KLogFile)
             /\ log_level = Expected(KLogLevel)
    /\ (mode = "cli" /\ args.command = "tts") => output_file = Expected(KTTS)
    /\ (mode = "cli" /\ args.command = "stt") => output_file = Expected(KSTT)
    /\ ~cfg.exists
          => /\ log_file \in {NoPath, <<"logs", "converter.log">>}
             /\ log_level \in {NoKey, <<"INFO">>}
             /\ (pc = "loaded" => level = 20)
             /\ output_file \in {NoPath, <<"output", "speech_output.mp3">>,
                                  <<"output", "text_output.txt">>}
             /\ (args.command = "tts" => output_file = <<"output", "speech_output.mp3">>)
             /\ (args.command = "stt" => output_file = <<"output", "text_output.txt">>)
             /\ exc \in {"none", "PermissionError"}
             /\ (ro = {} => exc = "none")

C5_Witness ==
    /\ CliDone("tts")
    /\ last.ok
    /\ cfg.exists
    /\ cfg.opts[KTTS] = <<"media", "speech.mp3">>
    /\ cfg.opts[KLogFile] = NoKey
    /\ output_file = <<"media", "speech.mp3">>
    /\ log_file = DefaultLogFile
    /\ files[<<"media", "speech.mp3">>].exists

\* C6: with no sub-command, main prints the invalid-command message and the
\* process ends with status 0; that step calls no conversion function, contacts
\* no provider, logs nothing, and changes no directory and no file.
C6_NoSubcommand ==
    [][(pc = "loaded" /\ mode = "cli" /\ argv.cmd = "")
         => /\ pc' = "exited"
            /\ exitStatus' = 0
            /\ exc' = "none"
            /\ stdout' = <<MsgInvalid>>
            /\ events' = <<>>
            /\ last' = NoCall
            /\ provider' = 0
            /\ errCalls' = <<>>
            /\ UNCHANGED fsVars]_vars

C6_Witness ==
    /\ CliDone("None")
    /\ exitStatus = 0
    /\ stdout = <<MsgInvalid>>
    /\ events = <<>>

\* C7: in a writable tree, a tts (stt) run ends having created the parent directory
\* of the configured output path and then called the matching conversion function
\* once with that path, and nothing else, for every configured output path.
C7_DirectoryThenConversion ==
    /\ (CliDone("tts") /\ ro = {})
          => /\ events = <<Ev("makedirs", Dirname(Expected(KTTS))),
                           Ev("convert_text_to_speech", Expected(KTTS))>>
             /\ Dirname(Expected(KTTS)) \in dirs
    /\ (CliDone("stt") /\ ro = {})
          => /\ events = <<Ev("makedirs", Dirname(Expected(KSTT))),
                           Ev("convert_speech_to_text", Expected(KSTT))>>
             /\ Dirname(Expected(KSTT)) \in dirs

\* C8: with the logger at level INFO, every conversion that finished has appended
\* a record to the log file: an INFO record on success, an ERROR record on failure.
C8_EveryConversionIsLogged ==
    (Exited /\ last.fn # "none" /\ level = 20)
        => /\ logged # <<>>
           /\ (last.ok => logged[Len(logged)][1] = "INFO")
           /\ (~last.ok => logged[Len(logged)][1] = "ERROR")

\* C9: after a successful conversion the output file holds exactly what the
\* provider returned in that call (the audio; the transcript in UTF-8), whatever
\* the file held before.
C9_OutputIsOverwritten ==
    (Exited /\ last.ok)
        => /\ files[last.path].exists
           /\ (last.fn = "tts" => files[last.path].data = last.result)
           /\ (last.fn = "stt" /\ last.result = <<233>>
                  => files[last.path].data = <<195, 169>>)
           /\ (last.fn = "stt" /\ last.result = <<8364, 65>>
                  => files[last.path].data = <<226, 130, 172, 65>>)
           /\ (last.fn = "stt" => last.result \in {<<233>>, <<8364, 65>>})

C9_Witness ==
    /\ Converted("stt")
    /\ last.ok
    /\ run = 2
    /\ last.before.exists
    /\ last.before.data = <<226, 130, 172, 65>>
    /\ files[last.path].data = <<195, 169>>

\* C10: a failed convert_speech_to_text call logs exactly one error, and the
\* message names the cause: 'Audio file not found' exactly when the audio file is
\* missing, 'Speech was unintelligible.' exactly on UnknownValueError, the
\* recognition-API message exactly on RequestError, the generic one otherwise.
C10_MessageNamesTheCause ==
    (Converted("stt") /\ ~last.ok)
        => /\ Len(last.errs) = 1
           /\ (last.errs[1] = MsgAudioNotFound <=> ~files[last.audio].exists)
           /\ (last.errs[1] = MsgUnintelligible <=> last.exc = "UnknownValueError")
           /\ (last.errs[1] = MsgRequest <=> last.exc = "RequestError")
           /\ (last.errs[1] = MsgSTT
                  <=> (files[last.audio].exists
                       /\ last.exc \notin {"UnknownValueError", "RequestError"}))

====
